---- MODULE Spec2Model ----
(***************************************************************************)
(* Model of commute-gen.js: one run() of the commute curator.              *)
(*                                                                         *)
(* Time is counted in whole hours since the epoch.  Durations are held in  *)
(* sixtieths of a minute (Scale units per minute), so that every "/ 60"    *)
(* of parseDuration is exact on the integer inputs used here.  JavaScript  *)
(* NaN is the value NaN below; every arithmetic operation propagates it    *)
(* and every comparison with it is false, as in the language.              *)
(* Strings that the code inspects character by character (raw durations)   *)
(* are sequences of one-character strings.  Titles, snippets and keywords  *)
(* are sequences of words / single words; String.includes is matched word  *)
(* by word after toLowerCase.                                              *)
(***************************************************************************)
EXTENDS Integers, Sequences, FiniteSets, TLC

\* ------------------------------------------------------------------ bounds
MaxFeeds == 2
MaxTicks == 1

\* ------------------------------------------------------ program constants
Scale == 60
HoursPerDay == 24
Thursday == 4
DefaultTarget == 70
SliceLimit == 5
BriefingMaxMinutes == 15
BriefingMaxAgeHours == 24
DiscardFloor == -20
OverflowAllowance == 15
OverrideScore == 60
LongMinutes == 90
LongScore == 50

\* ------------------------------------------------------------- JS numbers
NaN == -999999

Add(a, b) == IF a = NaN \/ b = NaN THEN NaN ELSE a + b
Sub(a, b) == IF a = NaN \/ b = NaN THEN NaN ELSE a - b
Mul(a, b) == IF a = NaN \/ b = NaN THEN NaN ELSE a * b
\* exact on the inputs of the model: every dividend is a multiple of 60
Div(a, b) == IF a = NaN \/ b = NaN THEN NaN ELSE a \div b
Gt(a, b) == a # NaN /\ b # NaN /\ a > b
Lt(a, b) == a # NaN /\ b # NaN /\ a < b
Ge(a, b) == a # NaN /\ b # NaN /\ a >= b
Le(a, b) == a # NaN /\ b # NaN /\ a <= b

\* ------------------------------------------------------------- JS strings
DigitChars == {"0", "1", "2", "3", "4", "5", "6", "7", "8", "9"}

DigitVal(c) ==
  CASE c = "0" -> 0 [] c = "1" -> 1 [] c = "2" -> 2 [] c = "3" -> 3
    [] c = "4" -> 4 [] c = "5" -> 5 [] c = "6" -> 6 [] c = "7" -> 7
    [] c = "8" -> 8 [] c = "9" -> 9

RECURSIVE TrimLeft(_)
TrimLeft(s) == IF s # <<>> /\ Head(s) = " " THEN TrimLeft(Tail(s)) ELSE s

RECURSIVE TrimRight(_)
TrimRight(s) ==
  IF s # <<>> /\ s[Len(s)] = " " THEN TrimRight(SubSeq(s, 1, Len(s) - 1)) ELSE s

\* the longest prefix of s made of decimal digits
RECURSIVE DigitPrefix(_)
DigitPrefix(s) ==
  IF s # <<>> /\ Head(s) \in DigitChars
  THEN <<Head(s)>> \o DigitPrefix(Tail(s))
  ELSE <<>>

RECURSIVE DecimalValue(_)
DecimalValue(ds) ==
  IF ds = <<>> THEN 0
  ELSE 10 * DecimalValue(SubSeq(ds, 1, Len(ds) - 1)) + DigitVal(ds[Len(ds)])

\* Number(s) of a string: white space trimmed, "" is 0, an optionally signed
\* run of digits is its value, anything else is NaN
Number(s) ==
  LET t == TrimRight(TrimLeft(s))
      neg == t # <<>> /\ Head(t) = "-"
      body == IF neg THEN Tail(t) ELSE t
  IN IF t = <<>> THEN 0
     ELSE IF body # <<>> /\ DigitPrefix(body) = body
          THEN (IF neg THEN 0 - DecimalValue(body) ELSE DecimalValue(body))
          ELSE NaN

\* parseInt(s): leading white space skipped, optional sign, then the digit
\* prefix; NaN when there is no digit
ParseInt(s) ==
  LET t == TrimLeft(s)
      neg == t # <<>> /\ Head(t) = "-"
      body == IF neg THEN Tail(t) ELSE t
      ds == DigitPrefix(body)
  IN IF ds = <<>> THEN NaN
     ELSE IF neg THEN 0 - DecimalValue(ds) ELSE DecimalValue(ds)

\* s.split(':')
RECURSIVE Split(_, _)
Split(s, sep) ==
  IF \A i \in 1..Len(s) : s[i] # sep THEN <<s>>
  ELSE LET k == CHOOSE i \in 1..Len(s) :
                  s[i] = sep /\ \A j \in 1..(i - 1) : s[j] # sep
       IN <<SubSeq(s, 1, k - 1)>> \o Split(SubSeq(s, k + 1, Len(s)), sep)

\* ------------------------------------------------------- raw durations
\* a raw duration is undefined, a number (of seconds) or a string
Undef == [t |-> "undef", n |-> 0, s |-> <<>>]
Num(n) == [t |-> "num", n |-> n, s |-> <<>>]
Str(s) == [t |-> "str", n |-> 0, s |-> s]

Truthy(d) ==
  CASE d.t = "undef" -> FALSE
    [] d.t = "num" -> d.n # 0 /\ d.n # NaN
    [] d.t = "str" -> d.s # <<>>

\* parseDuration, in Scale-ths of a minute
parseDuration(duration) ==
  IF ~Truthy(duration) THEN 0
  ELSE IF duration.t = "num" THEN Div(Mul(duration.n, Scale), 60)
  ELSE IF Number(duration.s) # NaN
       THEN Div(Mul(ParseInt(duration.s), Scale), 60)
  ELSE LET strs == Split(duration.s, ":")
           parts == [i \in 1..Len(strs) |-> Number(strs[i])]
       IN IF Len(parts) = 3
          THEN Add(Add(Mul(Mul(parts[1], 60), Scale), Mul(parts[2], Scale)),
                   Div(Mul(parts[3], Scale), 60))
          ELSE IF Len(parts) = 2
          THEN Add(Mul(parts[1], Scale), Div(Mul(parts[2], Scale), 60))
          ELSE 0

\* ------------------------------------------------------------ the clock
\* Thursday 23:00 of the week after the epoch (1 January 1970 was a Thursday)
StartNow == 7 * HoursPerDay + 23

\* new Date(t).getDay()
getDay(t) == (Thursday + (t \div HoursPerDay)) % 7

\* ------------------------------------------------------ feeds.json inputs
BaseRules ==
  [boost_keywords |-> <<"AI">>,
   boost_guests |-> <<"Sagan">>,
   block_keywords |-> <<"crypto">>,
   datenight_keywords |-> <<"love">>,
   datenight_block |-> <<"war">>]

\* a feed's tags entry: <<the tags>>, or <<>> when the entry is missing
TagOptions == {<<{"news", "briefing"}>>, <<{"tech"}>>, <<{"comedy"}>>, <<>>}

\* target_duration_minutes: 0 stands for an absent (falsy) entry
TargetOptions == {0, 10}

FeedConfigs(n) ==
  {[i \in 1..n |-> [name |-> i, tags |-> tg[i]]] : tg \in [1..n -> TagOptions]}

ConfigFiles ==
  {[target_duration_minutes |-> t, rules |-> BaseRules, feeds |-> f] :
     t \in TargetOptions, f \in UNION {FeedConfigs(n) : n \in 0..MaxFeeds}}

\* --------------------------------------------- what the parser can return
RawItem(title, url, pub, dur, snippet) ==
  [title |-> title, link |-> "", guid |-> "", enclosure_url |-> url,
   pubDate |-> pub, duration |-> dur, itunes_duration |-> Undef,
   contentSnippet |-> snippet, content |-> <<>>]

\* 50 minutes, 47 hours old at StartNow
ItemSagan ==
  RawItem(<<"Sagan", "Cosmos">>, "a.mp3", StartNow - 47, Num(3000), <<>>)
\* 50 minutes as MM:SS, 47 hours old
ItemShow ==
  RawItem(<<"Daily", "Show">>, "b.mp3", StartNow - 47,
          Str(<<"5", "0", ":", "0", "0">>), <<"ai", "love">>)
\* 10 minutes, 11 hours old
ItemQuick ==
  RawItem(<<"Quick", "Bits">>, "h.mp3", StartNow - 11, Num(600), <<>>)
\* 12 minutes, 23 hours old
ItemMorning ==
  RawItem(<<"Morning", "News">>, "c.mp3", StartNow - 23,
          Str(<<"1", "2", ":", "0", "0">>), <<"War">>)
\* 8 minutes as a numeric string of seconds, 11 hours old
ItemEvening ==
  RawItem(<<"Evening", "News">>, "d.mp3", StartNow - 11,
          Str(<<"4", "8", "0">>), <<>>)
\* no enclosure
ItemNoAudio ==
  RawItem(<<"Text", "Post">>, "", StartNow - 11, Num(600), <<>>)
\* a duration whose seconds part is not a number
ItemOddDuration ==
  RawItem(<<"Crypto", "Hour">>, "e.mp3", StartNow - 47,
          Str(<<"1", ":", "x", "x">>), <<>>)
\* 10 minutes under itunes.duration only, unparseable pubDate
ItemNoDate ==
  [RawItem(<<"Old", "Tale">>, "f.mp3", NaN, Undef, <<>>)
     EXCEPT !.itunes_duration = Str(<<"1", "0", ":", "0", "0">>)]
\* 1 h 40 min, 47 hours old
ItemLong ==
  RawItem(<<"Long", "Talk">>, "g.mp3", StartNow - 47,
          Str(<<"1", ":", "4", "0", ":", "0", "0">>), <<>>)

FeedBodies ==
  {<<>>,
   <<ItemSagan, ItemShow, ItemQuick>>,
   <<ItemMorning, ItemEvening>>,
   <<ItemEvening, ItemMorning>>,
   <<ItemNoAudio, ItemOddDuration, ItemNoDate, ItemLong>>}

\* a response of parser.parseURL: it throws, or it returns the feed's items
Responses ==
  {[ok |-> FALSE, items |-> <<>>]} \cup {[ok |-> TRUE, items |-> b] : b \in FeedBodies}

\* --------------------------------------------------------------- helpers
Min(a, b) == IF a < b THEN a ELSE b

toLowerCase(w) ==
  CASE w = "AI" -> "ai" [] w = "Sagan" -> "sagan" [] w = "Cosmos" -> "cosmos"
    [] w = "Daily" -> "daily" [] w = "Show" -> "show" [] w = "Morning" -> "morning"
    [] w = "News" -> "news" [] w = "Evening" -> "evening" [] w = "War" -> "war"
    [] w = "Crypto" -> "crypto" [] w = "Hour" -> "hour" [] w = "Text" -> "text"
    [] w = "Post" -> "post" [] w = "Old" -> "old" [] w = "Tale" -> "tale"
    [] w = "Quick" -> "quick" [] w = "Bits" -> "bits"
    [] w = "Long" -> "long" [] w = "Talk" -> "talk"
    [] OTHER -> w

\* text.includes(kw): the text contains the word
includes(text, kw) == \E i \in 1..Len(text) : text[i] = kw

\* the number of entries kw of kws with text.includes(kw.toLowerCase())
RECURSIVE Matches(_, _)
Matches(text, kws) ==
  IF kws = <<>> THEN 0
  ELSE (IF includes(text, toLowerCase(Head(kws))) THEN 1 ELSE 0)
       + Matches(text, Tail(kws))

\* ----------------------------------------------------- rules (lines 61-69)
\* the rules object after the date night merge; config.rules is that object
MergeDateNight(rules, thursday) ==
  IF thursday
  THEN [rules EXCEPT
          !.boost_keywords = rules.boost_keywords \o rules.datenight_keywords,
          !.block_keywords = rules.block_keywords \o rules.datenight_block]
  ELSE rules

LoadConfig(file, thursday) ==
  [file EXCEPT !.rules = MergeDateNight(file.rules, thursday)]

targetDuration(cfg) ==
  IF cfg.target_duration_minutes # 0 THEN cfg.target_duration_minutes
  ELSE DefaultTarget

\* ------------------------------------------------- fetch loop (lines 75-103)
\* parseDuration(item.duration || item.itunes?.duration), tabulated over the
\* items the feeds can return
durationOf ==
  [item \in UNION {{body[i] : i \in 1..Len(body)} : body \in FeedBodies} |->
     parseDuration(IF Truthy(item.duration) THEN item.duration
                   ELSE item.itunes_duration)]

Normalize(item, feedConfig) ==
  [title |-> item.title,
   link |-> item.link,
   guid |-> item.guid,
   audio_url |-> item.enclosure_url,
   pubDate |-> item.pubDate,
   duration |-> durationOf[item],
   contentSnippet |-> IF item.contentSnippet # <<>> THEN item.contentSnippet
                      ELSE item.content,
   feedName |-> feedConfig.name,
   tags |-> IF feedConfig.tags = <<>> THEN {} ELSE feedConfig.tags[1]]

HasAudio(item) == item.audio_url # ""

FeedItems(feedConfig, raw) ==
  LET first == SubSeq(raw, 1, Min(SliceLimit, Len(raw)))
      mapped == [i \in 1..Len(first) |-> Normalize(first[i], feedConfig)]
  IN SelectSeq(mapped, HasAudio)

\* feedConfig.tags.includes(...) throws a TypeError when tags is missing
TagsMissing(feedConfig) == feedConfig.tags = <<>>

IsBriefingFeed(feedConfig) ==
  "news" \in feedConfig.tags[1] /\ "briefing" \in feedConfig.tags[1]

IsShort(item) == Lt(item.duration, BriefingMaxMinutes * Scale)

\* items.find(i => i.duration < 15), as a sequence of zero or one item
FindBriefing(items) ==
  LET short == SelectSeq(items, IsShort)
  IN IF short = <<>> THEN <<>> ELSE <<Head(short)>>

\* KeepFresher with ">=" for ">": an equally recent briefing replaces the holder
KeepLatestSeen(holder, items) ==
  LET briefing == FindBriefing(items)
  IN IF briefing # <<>>
        /\ (holder = <<>> \/ Ge(briefing[1].pubDate, holder[1].pubDate))
     THEN briefing
     ELSE holder

\* the briefing holder after a briefing feed's items (null is <<>>)
KeepFresher(holder, items) ==
  LET briefing == FindBriefing(items)
  IN IF briefing # <<>>
        /\ (holder = <<>> \/ Gt(briefing[1].pubDate, holder[1].pubDate))
     THEN briefing
     ELSE holder

\* ProcessFeed with the concat placed before the tags test: a feed whose tags
\* are missing has added its items when the TypeError is thrown
ProcessFeedEager(feedConfig, resp, cands, holder) ==
  IF ~resp.ok THEN [candidates |-> cands, newsBriefing |-> holder]
  ELSE LET items == FeedItems(feedConfig, resp.items)
       IN IF TagsMissing(feedConfig)
          THEN [candidates |-> cands \o items, newsBriefing |-> holder]
          ELSE IF IsBriefingFeed(feedConfig)
          THEN [candidates |-> cands, newsBriefing |-> KeepFresher(holder, items)]
          ELSE [candidates |-> cands \o items, newsBriefing |-> holder]

\* one iteration of the loop: the try block, or the catch that only logs
ProcessFeed(feedConfig, resp, cands, holder) ==
  IF ~resp.ok \/ TagsMissing(feedConfig)
  THEN [candidates |-> cands, newsBriefing |-> holder]
  ELSE LET items == FeedItems(feedConfig, resp.items)
       IN IF IsBriefingFeed(feedConfig)
          THEN [candidates |-> cands, newsBriefing |-> KeepFresher(holder, items)]
          ELSE [candidates |-> cands \o items, newsBriefing |-> holder]

\* ------------------------------------------------- scoring (lines 106-143)
DecayTags == {"news", "tech", "space", "business"}

\* the score of one candidate; clock is the value new Date() returns in the
\* map callback (line 109)
Score(item, rules, thursday, clock) ==
  LET text == [i \in 1..(Len(item.title) + 1 + Len(item.contentSnippet)) |->
                 IF i <= Len(item.title) THEN toLowerCase(item.title[i])
                 ELSE IF i = Len(item.title) + 1 THEN " "
                 ELSE toLowerCase(item.contentSnippet[i - Len(item.title) - 1])]
      age == Sub(clock, item.pubDate)
      keywords == 15 * Matches(text, rules.boost_keywords)
                  + 50 * Matches(text, rules.boost_guests)
                  - 100 * Matches(text, rules.block_keywords)
      recency == IF item.tags \cap DecayTags # {}
                 THEN (IF Lt(age, 2 * HoursPerDay) THEN 30
                       ELSE IF Lt(age, 5 * HoursPerDay) THEN 10
                       ELSE 0 - 50)
                 ELSE (IF Lt(age, 7 * HoursPerDay) THEN 10 ELSE 0)
      length == (IF Ge(item.duration, 15 * Scale) /\ Le(item.duration, 60 * Scale)
                 THEN 10 ELSE 0)
                - (IF Gt(item.duration, 90 * Scale) THEN 30 ELSE 0)
                - (IF Lt(item.duration, 5 * Scale) THEN 10 ELSE 0)
      datenight == IF thursday
                   THEN (IF "date_night" \in item.tags THEN 40 ELSE 0)
                        + (IF "comedy" \in item.tags THEN 30 ELSE 0)
                        - (IF "tech" \in item.tags THEN 20 ELSE 0)
                   ELSE 0
  IN keywords + recency + length + datenight

\* { ...item, score }
WithScore(item, score) == item @@ ("score" :> score)

\* the candidate a scored item was made from
Unscored(s) == [f \in DOMAIN s \ {"score"} |-> s[f]]

\* the filter with ">=" for ">"
KeptInclusive(s) == s.score >= DiscardFloor

Kept(s) == s.score > DiscardFloor

\* Array.prototype.sort with (a, b) => b.score - a.score: stable, descending.
\* x goes after every entry that does not sort after it.
RECURSIVE InsertBeforeEqual(_, _)
\* an unstable sort: x goes before the entries of equal score
InsertBeforeEqual(sorted, x) ==
  IF sorted = <<>> THEN <<x>>
  ELSE IF Head(sorted).score > x.score
       THEN <<Head(sorted)>> \o InsertBeforeEqual(Tail(sorted), x)
       ELSE <<x>> \o sorted

RECURSIVE InsertByScore(_, _)
InsertByScore(sorted, x) ==
  IF sorted = <<>> THEN <<x>>
  ELSE IF Head(sorted).score >= x.score
       THEN <<Head(sorted)>> \o InsertByScore(Tail(sorted), x)
       ELSE <<x>> \o sorted

RECURSIVE SortByScore(_)
SortByScore(items) ==
  IF items = <<>> THEN <<>>
  ELSE InsertByScore(SortByScore(SubSeq(items, 1, Len(items) - 1)),
                     items[Len(items)])

\* ------------------------------------------------ selection (lines 146-168)
\* Skipped with the cap tested on the item's duration alone
SkippedCapOnItem(item, sel, total, target) ==
  \/ \E i \in 1..Len(sel) : sel[i].title = item.title
  \/ Gt(item.duration, LongMinutes * Scale) /\ item.score < LongScore
  \/ /\ Gt(item.duration, (target + OverflowAllowance) * Scale)
     /\ item.score < OverrideScore

\* Skipped without the title test
SkippedNoTitleTest(item, sel, total, target) ==
  \/ Gt(item.duration, LongMinutes * Scale) /\ item.score < LongScore
  \/ /\ Gt(Add(total, item.duration), (target + OverflowAllowance) * Scale)
     /\ item.score < OverrideScore

\* the three "continue" tests of the loop, in order
Skipped(item, sel, total, target) ==
  \/ \E i \in 1..Len(sel) : sel[i].title = item.title
  \/ Gt(item.duration, LongMinutes * Scale) /\ item.score < LongScore
  \/ /\ Gt(Add(total, item.duration), (target + OverflowAllowance) * Scale)
     /\ item.score < OverrideScore

\* the "break" test after an append
TargetReached(total, target) == Ge(total, target * Scale)

\* the briefing is seeded when it is less than 24 hours old at line 150
FreshBriefing(holder, clock) ==
  holder # <<>> /\ Lt(Sub(clock, holder[1].pubDate), BriefingMaxAgeHours)

\* ---------------------------------------------------------------- state
VARIABLES
  now,              \* the system clock, in hours
  feedsJson,        \* the contents of feeds.json
  pc,               \* where run() is
  isThursday,
  config,           \* the parsed configuration; rules is config.rules
  responses,        \* what parser.parseURL gave for each feed so far
  candidates,
  newsBriefing,     \* <<>> is null
  scoredItems,
  selected,
  currentDuration,
  packIdx           \* the position of the selection loop in scoredItems

vars == <<now, feedsJson, pc, isThursday, config, responses, candidates,
          newsBriefing, scoredItems, selected, currentDuration, packIdx>>

NotLoaded == [target_duration_minutes |-> 0, rules |-> BaseRules, feeds |-> <<>>]

Init ==
  /\ now = StartNow
  /\ feedsJson \in ConfigFiles
  /\ pc = "start"
  /\ isThursday = FALSE
  /\ config = NotLoaded
  /\ responses = <<>>
  /\ candidates = <<>>
  /\ newsBriefing = <<>>
  /\ scoredItems = <<>>
  /\ selected = <<>>
  /\ currentDuration = 0
  /\ packIdx = 1

\* the clock advances between any two steps of the run
Tick ==
  /\ pc # "done"
  /\ now < StartNow + MaxTicks
  /\ now' = now + 1
  /\ UNCHANGED <<feedsJson, pc, isThursday, config, responses, candidates,
                 newsBriefing, scoredItems, selected, currentDuration, packIdx>>

\* lines 58-73: the day is read, the configuration loaded and merged
Begin ==
  /\ pc = "start"
  /\ isThursday' = (getDay(now) = Thursday)
  /\ config' = LoadConfig(feedsJson, isThursday')
  /\ pc' = IF Len(feedsJson.feeds) = 0 THEN "score" ELSE "fetch"
  /\ UNCHANGED <<now, feedsJson, responses, candidates, newsBriefing,
                 scoredItems, selected, currentDuration, packIdx>>

\* lines 75-103: one feed is fetched and handled
FetchFeed ==
  /\ pc = "fetch"
  /\ \E resp \in Responses :
       LET feedConfig == config.feeds[Len(responses) + 1]
           after == ProcessFeed(feedConfig, resp, candidates, newsBriefing)
       IN /\ candidates' = after.candidates
          /\ newsBriefing' = after.newsBriefing
          /\ responses' = Append(responses, resp)
  /\ pc' = IF Len(responses') = Len(config.feeds) THEN "score" ELSE "fetch"
  /\ UNCHANGED <<now, feedsJson, isThursday, config, scoredItems, selected,
                 currentDuration, packIdx>>

\* lines 106-140: the map callback scores the next candidate
ScoreItem ==
  /\ pc = "score"
  /\ Len(scoredItems) < Len(candidates)
  /\ LET item == candidates[Len(scoredItems) + 1]
     IN scoredItems' =
          Append(scoredItems,
                 WithScore(item, Score(item, config.rules, isThursday, now)))
  /\ UNCHANGED <<now, feedsJson, pc, isThursday, config, responses, candidates,
                 newsBriefing, selected, currentDuration, packIdx>>

\* lines 141-156: filter, sort, and the briefing seed
SortAndSeed ==
  /\ pc = "score"
  /\ Len(scoredItems) = Len(candidates)
  /\ scoredItems' = SortByScore(SelectSeq(scoredItems, Kept))
  /\ IF FreshBriefing(newsBriefing, now)
     THEN /\ selected' = <<newsBriefing[1]>>
          /\ currentDuration' = Add(0, newsBriefing[1].duration)
     ELSE /\ selected' = <<>>
          /\ currentDuration' = 0
  /\ packIdx' = 1
  /\ pc' = IF scoredItems' = <<>> THEN "done" ELSE "pack"
  /\ UNCHANGED <<now, feedsJson, isThursday, config, responses, candidates,
                 newsBriefing>>

\* lines 159-168: one iteration of the selection loop
PackItem ==
  /\ pc = "pack"
  /\ LET item == scoredItems[packIdx]
         target == targetDuration(config)
     IN IF Skipped(item, selected, currentDuration, target)
        THEN /\ UNCHANGED <<selected, currentDuration>>
             /\ pc' = IF packIdx = Len(scoredItems) THEN "done" ELSE "pack"
        ELSE /\ selected' = Append(selected, item)
             /\ currentDuration' = Add(currentDuration, item.duration)
             /\ pc' = IF TargetReached(currentDuration', target)
                         \/ packIdx = Len(scoredItems)
                      THEN "done" ELSE "pack"
  /\ packIdx' = packIdx + 1
  /\ UNCHANGED <<now, feedsJson, isThursday, config, responses, candidates,
                 newsBriefing, scoredItems>>

Next ==
  \/ Tick
  \/ Begin
  \/ FetchFeed
  \/ ScoreItem
  \/ SortAndSeed
  \/ PackItem

Spec == Init /\ [][Next]_vars

\* ================================================================ claims
IsScored(e) == "score" \in DOMAIN e

\* the sum of the durations of the first k entries, as the accumulator adds
RECURSIVE PrefixDuration(_, _)
PrefixDuration(sel, k) ==
  IF k = 0 THEN 0 ELSE Add(PrefixDuration(sel, k - 1), sel[k].duration)

Target == targetDuration(config)
Cap == (Target + OverflowAllowance) * Scale

FetchOver == pc \in {"score", "pack", "done"} /\ Len(responses) = Len(config.feeds)
Packing == pc \in {"pack", "done"}

OverCapAt(k) ==
  /\ IsScored(selected[k])
  /\ Gt(Add(PrefixDuration(selected, k - 1), selected[k].duration), Cap)

\* C1: every entry the selection loop appended whose admission took the
\* accumulator past targetMinutes + 15 has a score of at least 60.
C1_OverflowCap ==
  \A k \in 1..Len(selected) : OverCapAt(k) => selected[k].score >= OverrideScore

C1_Witness ==
  /\ pc = "done"
  /\ \E k \in 1..Len(selected) : OverCapAt(k)

\* C2: no entry is appended by the selection loop when the accumulator before
\* the append (the briefing seed included) had already reached the target.
C2_StopRule ==
  \A k \in 1..Len(selected) :
    IsScored(selected[k]) =>
      ~TargetReached(PrefixDuration(selected, k - 1), Target)

\* C3: once scoring is over no item of score <= -20 is left for the selection
\* loop to visit, and none is in the selection.
C3_DiscardFilter ==
  Packing =>
    /\ \A i \in 1..Len(scoredItems) : scoredItems[i].score > DiscardFloor
    /\ \A k \in 1..Len(selected) :
         IsScored(selected[k]) => selected[k].score > DiscardFloor

C3_Witness ==
  /\ pc = "done"
  /\ Len(scoredItems) < Len(candidates)
  /\ \E k \in 1..Len(selected) : IsScored(selected[k])

\* C4: at every step no two entries of the selection, the briefing seed
\* included, have the same title, and the accumulator is the sum of the
\* durations of the selected entries (a skipped candidate adds nothing).
C4_UniqueTitles ==
  /\ \A i, j \in 1..Len(selected) :
       i < j => selected[i].title # selected[j].title
  /\ currentDuration = PrefixDuration(selected, Len(selected))

\* a visited item was left out although another entry with its title is selected
C4_Witness ==
  /\ Packing
  /\ \E j \in 1..(packIdx - 1) :
       /\ \A k \in 1..Len(selected) : selected[k] # scoredItems[j]
       /\ \E k \in 1..Len(selected) :
            /\ selected[k].title = scoredItems[j].title
            /\ \/ ~IsScored(selected[k])
               \/ \E i \in 1..(j - 1) : scoredItems[i] = selected[k]
  /\ \E k \in 1..Len(selected) : ~IsScored(selected[k])

RECURSIVE IsSubseq(_, _)
IsSubseq(a, b) ==
  IF a = <<>> THEN TRUE
  ELSE IF b = <<>> THEN FALSE
  ELSE IF Head(a) = Head(b) THEN IsSubseq(Tail(a), Tail(b))
  ELSE IsSubseq(a, Tail(b))

\* the candidates behind the selected entries of score v, in selection order
RECURSIVE SelectedWithScore(_, _)
SelectedWithScore(sel, v) ==
  IF sel = <<>> THEN <<>>
  ELSE (IF IsScored(Head(sel)) /\ Head(sel).score = v
        THEN <<Unscored(Head(sel))>> ELSE <<>>)
       \o SelectedWithScore(Tail(sel), v)

\* C5: the only unscored entry of the selection is the briefing holder, at
\* position 1; the scored entries are in non-increasing score order, and those
\* of equal score are in the order of the candidate list.
C5_SelectionOrder ==
  /\ \A k \in 1..Len(selected) :
       ~IsScored(selected[k]) => k = 1 /\ newsBriefing = <<selected[k]>>
  /\ \A i, j \in 1..Len(selected) :
       i < j /\ IsScored(selected[i]) /\ IsScored(selected[j])
         => selected[i].score >= selected[j].score
  /\ \A k \in 1..Len(selected) :
       IsScored(selected[k])
         => IsSubseq(SelectedWithScore(selected, selected[k].score), candidates)

C5_Witness ==
  /\ pc = "done"
  /\ Len(selected) >= 3
  /\ ~IsScored(selected[1])
  /\ \E i, j \in 2..Len(selected) :
       i < j /\ selected[i].score = selected[j].score

\* C6: two candidates with the same title, summary, tags, duration and
\* publication date have the same score.
C6_SameInputSameScore ==
  \A i, j \in 1..Len(scoredItems) :
    (/\ scoredItems[i].title = scoredItems[j].title
     /\ scoredItems[i].contentSnippet = scoredItems[j].contentSnippet
     /\ scoredItems[i].tags = scoredItems[j].tags
     /\ scoredItems[i].duration = scoredItems[j].duration
     /\ scoredItems[i].pubDate = scoredItems[j].pubDate)
      => scoredItems[i].score = scoredItems[j].score

\* C7: after the rules are built, the boost and block keyword lists of the
\* loaded configuration are those of feeds.json.
C7_BaseRulesKept ==
  pc # "start" =>
    /\ config.rules.boost_keywords = feedsJson.rules.boost_keywords
    /\ config.rules.block_keywords = feedsJson.rules.block_keywords

\* feed i threw inside the try block
Failed(i) == ~responses[i].ok \/ TagsMissing(config.feeds[i])

\* the candidate list and briefing holder of the loop run over the first k
\* feeds with the failing ones left out of the configuration
RECURSIVE WithoutFailing(_)
WithoutFailing(k) ==
  IF k = 0 THEN [candidates |-> <<>>, newsBriefing |-> <<>>]
  ELSE LET before == WithoutFailing(k - 1)
       IN IF Failed(k) THEN before
          ELSE LET items == FeedItems(config.feeds[k], responses[k].items)
               IN IF IsBriefingFeed(config.feeds[k])
                  THEN [before EXCEPT
                          !.newsBriefing = KeepFresher(before.newsBriefing, items)]
                  ELSE [before EXCEPT !.candidates = before.candidates \o items]

\* C8: whatever feeds fail, every feed is processed before scoring starts, and
\* the candidate list and the briefing holder are those of a run configured
\* without the failing feeds.
C8_FailureIsolation ==
  LET reference == WithoutFailing(Len(responses))
  IN /\ pc \in {"score", "pack", "done"} => Len(responses) = Len(config.feeds)
     /\ candidates = reference.candidates
     /\ newsBriefing = reference.newsBriefing

\* a feed after a failed one has an entry in the final selection
C8_Witness ==
  /\ pc = "done"
  /\ \E i, j \in 1..Len(responses) :
       /\ i < j
       /\ Failed(i)
       /\ \E k \in 1..Len(selected) : selected[k].feedName = config.feeds[j].name

\* C9: every candidate has a non-empty audio URL and a duration that is a
\* number >= 0.
C9_CandidateInvariant ==
  \A i \in 1..Len(candidates) :
    /\ candidates[i].audio_url # ""
    /\ candidates[i].duration # NaN
    /\ candidates[i].duration >= 0

\* the feeds processed so far that are briefing feeds and did not fail
BriefingFeeds ==
  {i \in 1..Len(responses) : ~Failed(i) /\ IsBriefingFeed(config.feeds[i])}

\* the short ones among a sequence of items, as a set
ShortOnes(items) == {items[m] : m \in {n \in 1..Len(items) : IsShort(items[n])}}

\* every short item with audio of the briefing feeds
Qualifying ==
  UNION {ShortOnes(FeedItems(config.feeds[i], responses[i].items)) :
           i \in BriefingFeeds}

NoBriefingCandidate ==
  \A i \in 1..Len(candidates) :
    ~("news" \in candidates[i].tags /\ "briefing" \in candidates[i].tags)

FirstShort(items) ==
  items[CHOOSE n \in 1..Len(items) :
          IsShort(items[n]) /\ \A l \in 1..(n - 1) : ~IsShort(items[l])]

\* the offers of the first k feeds, in feed order: a briefing feed that did
\* not fail offers the first of its (at most five) items with audio that is
\* shorter than 15 minutes, if it has one
RECURSIVE Offers(_)
Offers(k) ==
  IF k = 0 THEN <<>>
  ELSE IF Failed(k) \/ ~IsBriefingFeed(config.feeds[k]) THEN Offers(k - 1)
  ELSE LET items == FeedItems(config.feeds[k], responses[k].items)
       IN IF ShortOnes(items) = {} THEN Offers(k - 1)
          ELSE Append(Offers(k - 1), FirstShort(items))

====
